---- MODULE Spec2Model ----
(***************************************************************************)
(* Model of the image editor's App component (src/App.tsx) and of its      *)
(* Gemini service client editImage (src/unnamed/part_000).                 *)
(*                                                                         *)
(* Strings that the code parses or assembles character by character (data  *)
(* URLs, MIME types, base64 payloads) are sequences of one-character       *)
(* strings; messages that the code only stores and concatenates are TLA+   *)
(* strings.  A nullable value is Null or Some(v).                          *)
(*                                                                         *)
(* React commits the state updates of one event handler, or of one         *)
(* continuation of an async function, in a single batch (automatic         *)
(* batching), and runs the effect cleanups of that commit with it: each    *)
(* action below is one such batch.                                         *)
(*                                                                         *)
(* Spec     the handlers, each invocable whenever the component is mounted *)
(* SpecUI   the handlers as the rendered elements deliver them: a disabled *)
(*          element delivers no event                                      *)
(* FairSpec Spec, where every file read and service call settles           *)
(* SpecEdit editImage applied to every outcome of generateContent          *)
(* SpecCodec fileToDataUrl and parseDataUrl applied to files and strings   *)
(* SpecDecode Spec, and beside it parseDataUrl applied to every string     *)
(***************************************************************************)
EXTENDS Naturals, Sequences, FiniteSets, TLC

\* ---------------------------------------------------------------- bounds

\* Number of handleImageChange events that carry a file.
MaxSelects == 2
\* Number of handleSubmit invocations that pass the validation.
MaxSubmits == 2
\* Longest list of content parts in a service response.
MaxParts == 3
\* Longest file, in bytes, given to fileToDataUrl on its own.
MaxBytes == 4
\* Most pieces in a string given to parseDataUrl on its own.
MaxPieces == 4

\* ------------------------------------------------------ values and strings

Null == <<>>
Some(v) == <<v>>

\* 'data:' and ';base64,', the fixed pieces of a data URL.
DataPrefix == <<"d", "a", "t", "a", ":">>
Base64Marker == <<";", "b", "a", "s", "e", "6", "4", ",">>

ImagePng == <<"i", "m", "a", "g", "e", "/", "p", "n", "g">>
ImageJpeg == <<"i", "m", "a", "g", "e", "/", "j", "p", "e", "g">>
OctetStream == <<"a", "p", "p", "l", "i", "c", "a", "t", "i", "o", "n", "/",
                 "o", "c", "t", "e", "t", "-", "s", "t", "r", "e", "a", "m">>
\* What a template literal prints for an undefined value.
UndefinedText == <<"u", "n", "d", "e", "f", "i", "n", "e", "d">>

\* The base64 alphabet, indexed from 1.
B64Alphabet ==
    <<"A", "B", "C", "D", "E", "F", "G", "H", "I", "J", "K", "L", "M",
      "N", "O", "P", "Q", "R", "S", "T", "U", "V", "W", "X", "Y", "Z",
      "a", "b", "c", "d", "e", "f", "g", "h", "i", "j", "k", "l", "m",
      "n", "o", "p", "q", "r", "s", "t", "u", "v", "w", "x", "y", "z",
      "0", "1", "2", "3", "4", "5", "6", "7", "8", "9", "+", "/">>

B64Char(n) == B64Alphabet[n + 1]

\* base64 of a byte sequence: three bytes make four characters, a last group
\* of one or two bytes is padded with '='.
RECURSIVE Base64(_)
Base64(bytes) ==
    IF Len(bytes) = 0 THEN <<>>
    ELSE IF Len(bytes) = 1 THEN
        <<B64Char(bytes[1] \div 4), B64Char((bytes[1] % 4) * 16), "=", "=">>
    ELSE IF Len(bytes) = 2 THEN
        <<B64Char(bytes[1] \div 4),
          B64Char((bytes[1] % 4) * 16 + bytes[2] \div 16),
          B64Char((bytes[2] % 16) * 4), "=">>
    ELSE
        <<B64Char(bytes[1] \div 4),
          B64Char((bytes[1] % 4) * 16 + bytes[2] \div 16),
          B64Char((bytes[2] % 16) * 4 + bytes[3] \div 64),
          B64Char(bytes[3] % 64)>>
        \o Base64(SubSeq(bytes, 4, Len(bytes)))

\* ------------------------------------------------------------------ files

\* The files the user can pick, each with its declared type and its bytes:
\* a PNG image, and an empty file without a type.
Files ==
    <<[type |-> ImagePng, bytes |-> <<77, 97, 110>>],
      [type |-> <<>>, bytes |-> <<>>]>>

FileIds == 1..Len(Files)
NoFile == 0

\* The results reader.readAsDataURL can deliver for a file.  The type of a
\* data URL defaults to application/octet-stream; for a file of zero bytes
\* browsers deliver 'data:' alone or a data URL with an empty payload.
readAsDataURL(file) ==
    LET type == IF file.type = <<>> THEN OctetStream ELSE file.type
        full == DataPrefix \o type \o Base64Marker \o Base64(file.bytes)
    IN  IF file.bytes = <<>> THEN {DataPrefix, full} ELSE {full}

FileReaderResults(f) == readAsDataURL(Files[f])

\* Whether the marker ';base64,' stands at position i of s.
MarkerAt(s, i) ==
    /\ i + Len(Base64Marker) - 1 <= Len(s)
    /\ SubSeq(s, i, i + Len(Base64Marker) - 1) = Base64Marker

\* The pattern with a payload group that may be empty, (.*).
ParseSplits_EmptyPayload(s) ==
    {i \in (Len(DataPrefix) + 2)..Len(s) : MarkerAt(s, i)}

\* dataUrl.match(/^data:(.+);base64,(.+)$/): both groups are greedy and not
\* empty, so the type runs to the last ';base64,' that leaves a payload; '.'
\* matches no line terminator.
ParseSplits(s) ==
    {i \in (Len(DataPrefix) + 2)..Len(s) :
        /\ MarkerAt(s, i)
        /\ i + Len(Base64Marker) <= Len(s)}

InvalidDataUrlMessage == "Invalid data URL format"

\* A pattern whose type group is lazy, (.+?): the type ends at the first
\* ';base64,' that leaves a payload.
parseDataUrl_Lazy(dataUrl) ==
    LET hasPrefix == /\ Len(dataUrl) >= Len(DataPrefix)
                     /\ SubSeq(dataUrl, 1, Len(DataPrefix)) = DataPrefix
        oneLine == \A k \in 1..Len(dataUrl) : dataUrl[k] # "\n"
        splits == ParseSplits(dataUrl)
    IN  IF hasPrefix /\ oneLine /\ splits # {}
        THEN LET i == CHOOSE j \in splits : \A k \in splits : j <= k
             IN  [ok |-> TRUE,
                  mimeType |-> SubSeq(dataUrl, Len(DataPrefix) + 1, i - 1),
                  base64 |-> SubSeq(dataUrl, i + Len(Base64Marker), Len(dataUrl)),
                  message |-> ""]
        ELSE [ok |-> FALSE, mimeType |-> <<>>, base64 |-> <<>>,
              message |-> InvalidDataUrlMessage]

parseDataUrl(dataUrl) ==
    LET hasPrefix == /\ Len(dataUrl) >= Len(DataPrefix)
                     /\ SubSeq(dataUrl, 1, Len(DataPrefix)) = DataPrefix
        oneLine == \A k \in 1..Len(dataUrl) : dataUrl[k] # "\n"
        splits == ParseSplits(dataUrl)
    IN  IF hasPrefix /\ oneLine /\ splits # {}
        THEN LET i == CHOOSE j \in splits : \A k \in splits : k <= j
             IN  [ok |-> TRUE,
                  mimeType |-> SubSeq(dataUrl, Len(DataPrefix) + 1, i - 1),
                  base64 |-> SubSeq(dataUrl, i + Len(Base64Marker), Len(dataUrl)),
                  message |-> ""]
        ELSE [ok |-> FALSE, mimeType |-> <<>>, base64 |-> <<>>,
              message |-> InvalidDataUrlMessage]

\* ------------------------------------------------------------ editImage

NoImageMessage == "No image data found in the Gemini API response."
EditFailedPrefix == "Failed to edit image: "
EditUnknownMessage == "An unknown error occurred while editing the image."

\* A content part of a response: a text part has no inlineData; an inline
\* part has one, whose mimeType and data the service may each omit.
TextPart == [inlineData |-> Null]
InlinePart(mimeType, data) ==
    [inlineData |-> Some([mimeType |-> mimeType, data |-> data])]

PartKinds ==
    {TextPart,
     InlinePart(Some(ImagePng), Some(<<"T", "W", "F", "u">>)),
     InlinePart(Some(ImageJpeg), Some(<<"/", "9", "g", "=">>)),
     InlinePart(Null, Some(<<"Q", "Q", "=", "=">>))}

PartLists(n) == UNION {[1..k -> PartKinds] : k \in 0..n}

\* What ai.models.generateContent settles with: a response, of which
\* candidates?.[0]?.content?.parts is a list or undefined, or a rejection
\* with an Error (and its message) or with a value that is no Error.
Response(parts) == [kind |-> "response", parts |-> parts, message |-> ""]
RejectError(m) == [kind |-> "error", parts |-> Null, message |-> m]
RejectOther == [kind |-> "other", parts |-> Null, message |-> ""]

\* part.inlineData.mimeType || 'image/png': undefined and '' are falsy.
MimeTypeOrDefault(mimeType) ==
    IF mimeType = Null \/ mimeType = Some(<<>>) THEN ImagePng ELSE mimeType[1]

\* `data:${generatedMimeType};base64,${generatedBase64}`
PartDataUrl(inline) ==
    DataPrefix \o MimeTypeOrDefault(inline.mimeType) \o Base64Marker
    \o (IF inline.data = Null THEN UndefinedText ELSE inline.data[1])

\* A loop that keeps the last part whose inlineData is set.
RECURSIVE ScanParts_Last(_, _)
ScanParts_Last(parts, i) ==
    IF i > Len(parts) THEN Null
    ELSE LET later == ScanParts_Last(parts, i + 1)
         IN  IF later # Null THEN later
             ELSE IF parts[i].inlineData # Null
                  THEN Some(PartDataUrl(parts[i].inlineData[1]))
                  ELSE Null

\* The for loop over the parts, from part i: the data URL of the first part
\* whose inlineData is set, or Null when the loop runs out.
RECURSIVE ScanParts(_, _)
ScanParts(parts, i) ==
    IF i > Len(parts) THEN Null
    ELSE IF parts[i].inlineData # Null
         THEN Some(PartDataUrl(parts[i].inlineData[1]))
         ELSE ScanParts(parts, i + 1)

\* response.candidates?.[0]?.content?.parts || []
PartsOf(outcome) == IF outcome.parts = Null THEN <<>> ELSE outcome.parts[1]

Returned(url) == [ok |-> TRUE, url |-> url, message |-> ""]
Thrown(m) == [ok |-> FALSE, url |-> <<>>, message |-> m]

\* An editImage that falls out of its loop without throwing.
editImage_NoThrow(outcome) ==
    IF outcome.kind = "response"
    THEN LET found == ScanParts(PartsOf(outcome), 1)
         IN  IF found # Null THEN Returned(found[1]) ELSE Returned(<<>>)
    ELSE IF outcome.kind = "error"
         THEN Thrown(EditFailedPrefix \o outcome.message)
         ELSE Thrown(EditUnknownMessage)

\* editImage, given what generateContent settled with: the value it returns
\* or the Error it throws.  The Error of the empty loop is thrown inside the
\* try block, so the catch block wraps it like a failure of the call.
editImage(outcome) ==
    IF outcome.kind = "response"
    THEN LET found == ScanParts(PartsOf(outcome), 1)
         IN  IF found # Null THEN Returned(found[1])
             ELSE Thrown(EditFailedPrefix \o NoImageMessage)
    ELSE IF outcome.kind = "error"
         THEN Thrown(EditFailedPrefix \o outcome.message)
         ELSE Thrown(EditUnknownMessage)

\* ------------------------------------------------- the codec on its own

\* text/plain;charset=utf-8, a type with a parameter.
TextPlainUtf8 == <<"t", "e", "x", "t", "/", "p", "l", "a", "i", "n", ";", "c", "h", "a", "r", "s", "e", "t", "=", "u", "t", "f", "-", "8">>
\* x/y;q=";base64,Q", a type whose quoted parameter value holds the marker.
QuotedMarkerType == <<"x", "/", "y", ";", "q", "=", "\"", ";", "b", "a", "s", "e", "6", "4", ",", "Q", "\"">>

\* The values of File.type: the empty string or a MIME type.
MimeTypes == {ImagePng, ImageJpeg, TextPlainUtf8, QuotedMarkerType}

ByteValues == {0, 77, 255}
ByteSeqs(n) == UNION {[1..k -> ByteValues] : k \in 0..n}

\* The files given to fileToDataUrl.
CodecFiles == [type : MimeTypes \cup {<<>>}, bytes : ByteSeqs(MaxBytes)]

\* The strings given to parseDataUrl: every concatenation of up to MaxPieces
\* of the two fixed pieces of a data URL, two other characters and a line
\* feed.
UrlPieces == {DataPrefix, Base64Marker, <<"x">>, <<"Q">>, <<"\n">>}

RECURSIVE Concat(_)
Concat(pieces) ==
    IF pieces = <<>> THEN <<>> ELSE Head(pieces) \o Concat(Tail(pieces))

DataUrlInputs == {Concat(ps) : ps \in UNION {[1..k -> UrlPieces] : k \in 0..MaxPieces}}

\* lastParsed before the call.
NotParsed == [ok |-> FALSE, mimeType |-> <<>>, base64 |-> <<>>,
              message |-> "(parseDataUrl not called)"]

\* ---------------------------------------------------------- the component

\* The initial prompt (its first words: the code tests a prompt for emptiness
\* and forwards it, nothing else).
DefaultPrompt == "L'image que j'envoie doit etre utilisee comme couverture d'un livre"
ValidationMessage == "Please upload an image and provide a prompt."
UnknownErrorMessage == "An unknown error occurred."

\* The texts the textarea can hold.
Prompts == {"", DefaultPrompt}

\* The messages the Error of a rejection of generateContent can carry; that
\* of new Error() is the empty string.
ServiceMessages == {"quota exceeded", ""}

\* What generateContent can settle with, for every list of parts.
EditOutcomes ==
    {Response(Null)} \cup {Response(Some(ps)) : ps \in PartLists(MaxParts)}
    \cup {RejectError(m) : m \in ServiceMessages} \cup {RejectOther}

\* What generateContent settles with in the runs of the component: no list
\* of parts, an empty one, text alone, an image after text, two images, a
\* rejection.
ServiceOutcomes ==
    {Response(Null), Response(Some(<<>>)), Response(Some(<<TextPart>>)),
     Response(Some(<<TextPart,
                     InlinePart(Some(ImageJpeg), Some(<<"/", "9", "g", "=">>))>>)),
     Response(Some(<<InlinePart(Null, Some(<<"Q", "Q", "=", "=">>)),
                     InlinePart(Some(ImagePng), Some(<<"T", "W", "F", "u">>))>>))}
    \cup {RejectError(m) : m \in ServiceMessages} \cup {RejectOther}

\* lastOutcome and lastReturn where editImage is not taken on its own, and
\* lastReturn before the call.
NoOutcome == [kind |-> "none", parts |-> Null, message |-> ""]
NotCalled == [ok |-> FALSE, url |-> <<>>, message |-> "(editImage not called)"]

\* An object URL is the number of the createObjectURL call that made it.
NoUrl == 0

VARIABLES
    mounted,            \* the component is mounted
    imageFile,          \* useState: the File picked, or NoFile
    imagePreviewUrl,    \* useState: the object URL of the preview, or NoUrl
    prompt,             \* useState
    generatedImageUrl,  \* useState: Null or Some(data URL)
    isLoading,          \* useState
    error,              \* useState: Null or Some(message)
    created,            \* number of URL.createObjectURL calls so far
    revoked,            \* per object URL: number of URL.revokeObjectURL calls
    reqs,               \* the handleSubmit invocations that passed validation,
                        \* each with the generateContent calls it issued
    generatedBy,        \* the invocation that set generatedImageUrl, 0 if none
    errorBy,            \* the invocation that set error, 0 if none
    lastOutcome,        \* editImage on its own: what generateContent settled with
    lastReturn,         \* editImage on its own: what editImage made of it
    lastFile,           \* the codec on its own: the file given to fileToDataUrl
    lastDataUrl,        \* the codec on its own: the string given to parseDataUrl
    lastParsed          \* the codec on its own: what parseDataUrl made of it

\* The variables of the codec taken on its own.
codec == <<lastFile, lastDataUrl, lastParsed>>

vars == <<mounted, imageFile, imagePreviewUrl, prompt, generatedImageUrl,
          isLoading, error, created, revoked, reqs, generatedBy, errorBy,
          lastOutcome, lastReturn, codec>>

\* The component after its first render.
InitComponent ==
    /\ mounted = TRUE
    /\ imageFile = NoFile
    /\ imagePreviewUrl = NoUrl
    /\ prompt = DefaultPrompt
    /\ generatedImageUrl = Null
    /\ isLoading = FALSE
    /\ error = Null
    /\ created = 0
    /\ revoked = [u \in 1..MaxSelects |-> 0]
    /\ reqs = <<>>
    /\ generatedBy = 0
    /\ errorBy = 0

\* The codec has not been taken on its own.
CodecIdle == lastFile = Null /\ lastDataUrl = Null /\ lastParsed = NotParsed

Init ==
    /\ InitComponent
    /\ lastOutcome = NoOutcome
    /\ lastReturn = NotCalled
    /\ CodecIdle

\* URL.revokeObjectURL(url)
revokeObjectURL(rv, url) == [rv EXCEPT ![url] = @ + 1]

\* Line 138: if (imagePreviewUrl) URL.revokeObjectURL(imagePreviewUrl)
ReleasePrevious(rv, url) == IF url # NoUrl THEN revokeObjectURL(rv, url) ELSE rv

\* A component without the effect.
EffectCleanup_None(rv, url) == rv

\* The cleanup of the effect on [imagePreviewUrl], closed over the value url
\* of the render that registered it: React runs it when a commit changes
\* imagePreviewUrl and when the component unmounts.
EffectCleanup(rv, url) == IF url # NoUrl THEN revokeObjectURL(rv, url) ELSE rv

\* A handleImageChange that does not clear the generated image.
GeneratedAfterSelect_Kept == generatedImageUrl

\* Lines 141 and 142: setGeneratedImageUrl(null), setError(null).
GeneratedAfterSelect == Null
ErrorAfterSelect == Null

\* handleImageChange with event.target.files?.[0] = file.
handleImageChange(file) ==
    /\ mounted
    /\ IF file = NoFile
       THEN UNCHANGED vars
       ELSE /\ created < MaxSelects
            /\ created' = created + 1
            /\ imageFile' = file
            /\ imagePreviewUrl' = created + 1
            /\ revoked' = EffectCleanup(ReleasePrevious(revoked, imagePreviewUrl),
                                        imagePreviewUrl)
            /\ generatedImageUrl' = GeneratedAfterSelect
            /\ error' = ErrorAfterSelect
            /\ generatedBy' = IF GeneratedAfterSelect = Null THEN 0 ELSE generatedBy
            /\ errorBy' = IF ErrorAfterSelect = Null THEN 0 ELSE errorBy
            /\ UNCHANGED <<mounted, prompt, isLoading, reqs, lastOutcome,
                           lastReturn, codec>>

\* The textarea's onChange: setPrompt(e.target.value).
setPrompt(text) ==
    /\ mounted
    /\ prompt' = text
    /\ UNCHANGED <<mounted, imageFile, imagePreviewUrl, generatedImageUrl,
                   isLoading, error, created, revoked, reqs, generatedBy,
                   errorBy, lastOutcome, lastReturn, codec>>

\* A validation that forgets the prompt.
SubmitRejected_ImageOnly == imageFile = NoFile

\* Line 147, the condition of handleSubmit's early return.
SubmitRejected == imageFile = NoFile \/ prompt = ""

\* A handleSubmit that does not clear the generated image.
GeneratedAfterSubmit_Kept == generatedImageUrl

\* A handleSubmit that does not clear the error.
ErrorAfterSubmit_Kept == error

\* Lines 151 to 153: setIsLoading(true), setError(null),
\* setGeneratedImageUrl(null).
LoadingAfterSubmit == TRUE
ErrorAfterSubmit == Null
GeneratedAfterSubmit == Null

\* handleSubmit up to its first await: the validation, or the reset of the
\* state and the start of the file read.
handleSubmit ==
    /\ mounted
    /\ IF SubmitRejected
       THEN /\ error' = Some(ValidationMessage)
            /\ errorBy' = 0
            /\ UNCHANGED <<mounted, imageFile, imagePreviewUrl, prompt,
                           generatedImageUrl, isLoading, created, revoked, reqs,
                           generatedBy, lastOutcome, lastReturn, codec>>
       ELSE /\ Len(reqs) < MaxSubmits
            /\ isLoading' = LoadingAfterSubmit
            /\ error' = ErrorAfterSubmit
            /\ generatedImageUrl' = GeneratedAfterSubmit
            /\ generatedBy' = IF GeneratedAfterSubmit = Null THEN 0 ELSE generatedBy
            /\ errorBy' = IF ErrorAfterSubmit = Null THEN 0 ELSE errorBy
            /\ reqs' = Append(reqs, [pc |-> "reading", file |-> imageFile,
                                     prompt |-> prompt, calls |-> <<>>])
            /\ UNCHANGED <<mounted, imageFile, imagePreviewUrl, prompt, created,
                           revoked, lastOutcome, lastReturn, codec>>

\* A value thrown into handleSubmit's catch block: an Error with its
\* message, or a value that is no Error (the ProgressEvent of reader.onerror).
ErrorValue(m) == [isError |-> TRUE, message |-> m]
OtherValue == [isError |-> FALSE, message |-> ""]

\* A catch block that shows the fallback whatever was thrown.
CatchMessage_Generic(err) == UnknownErrorMessage

\* Line 161: err instanceof Error ? err.message : "An unknown error occurred."
CatchMessage(err) == IF err.isError THEN err.message ELSE UnknownErrorMessage

\* A handleSubmit without its finally block.
LoadingAfterSettle_Kept == isLoading

\* Line 165, the finally block: setIsLoading(false).
LoadingAfterSettle == FALSE

\* A catch block that logs what was thrown and shows nothing.
SettleFailed_Silent(r, err) ==
    /\ reqs' = [reqs EXCEPT ![r].pc = "failed"]
    /\ IF mounted
       THEN /\ isLoading' = LoadingAfterSettle
            /\ UNCHANGED <<error, errorBy, generatedImageUrl, generatedBy>>
       ELSE UNCHANGED <<error, errorBy, isLoading, generatedImageUrl, generatedBy>>
    /\ UNCHANGED <<mounted, imageFile, imagePreviewUrl, prompt, created, revoked>>

\* Invocation r of handleSubmit leaves its try block by the catch block.
\* The setters of an unmounted component change nothing.
SettleFailed(r, err) ==
    /\ reqs' = [reqs EXCEPT ![r].pc = "failed"]
    /\ IF mounted
       THEN /\ error' = Some(CatchMessage(err))
            /\ errorBy' = r
            /\ isLoading' = LoadingAfterSettle
            /\ UNCHANGED <<generatedImageUrl, generatedBy>>
       ELSE UNCHANGED <<error, errorBy, isLoading, generatedImageUrl, generatedBy>>
    /\ UNCHANGED <<mounted, imageFile, imagePreviewUrl, prompt, created, revoked>>

\* Invocation r of handleSubmit reaches setGeneratedImageUrl(resultUrl).
SettleSucceeded(r, url) ==
    /\ reqs' = [reqs EXCEPT ![r].pc = "succeeded"]
    /\ IF mounted
       THEN /\ generatedImageUrl' = Some(url)
            /\ generatedBy' = r
            /\ isLoading' = LoadingAfterSettle
            /\ UNCHANGED <<error, errorBy>>
       ELSE UNCHANGED <<error, errorBy, isLoading, generatedImageUrl, generatedBy>>
    /\ UNCHANGED <<mounted, imageFile, imagePreviewUrl, prompt, created, revoked>>

\* The request editImage sends: the inline image part and the text part.
EditRequest(base64Data, mimeType, text) ==
    [data |-> base64Data, mimeType |-> mimeType, text |-> text]

\* A handleSubmit that reads the prompt of the latest render.
SubmittedPrompt_Current(r) == prompt

\* The prompt invocation r of handleSubmit passes to editImage: that of the
\* render whose handleSubmit was invoked.
SubmittedPrompt(r) == reqs[r].prompt

\* The file read of invocation r fails: reader.onerror rejects the promise
\* with its ProgressEvent.
FileReaderFails(r) ==
    /\ r \in 1..Len(reqs)
    /\ reqs[r].pc = "reading"
    /\ SettleFailed(r, OtherValue)
    /\ UNCHANGED <<lastOutcome, lastReturn, codec>>

\* The file read of invocation r delivers dataUrl: reader.onload resolves
\* the promise and handleSubmit goes on to parseDataUrl and, if that
\* returns, into editImage up to its await of generateContent.
FileReaderDelivers(r, dataUrl) ==
    /\ r \in 1..Len(reqs)
    /\ reqs[r].pc = "reading"
    /\ LET parsed == parseDataUrl(dataUrl)
       IN  IF parsed.ok
           THEN /\ reqs' = [reqs EXCEPT
                       ![r].pc = "calling",
                       ![r].calls = Append(@,
                           EditRequest(parsed.base64, parsed.mimeType,
                                       SubmittedPrompt(r)))]
                /\ UNCHANGED <<mounted, imageFile, imagePreviewUrl, prompt,
                               generatedImageUrl, isLoading, error, created,
                               revoked, generatedBy, errorBy>>
           ELSE SettleFailed(r, ErrorValue(parsed.message))
    /\ UNCHANGED <<lastOutcome, lastReturn, codec>>

\* The file read of invocation r settles.
FileReaderSettles(r) ==
    \/ FileReaderFails(r)
    \/ /\ r \in 1..Len(reqs)
       /\ \E dataUrl \in FileReaderResults(reqs[r].file) :
            FileReaderDelivers(r, dataUrl)

\* generateContent settles with outcome for invocation r: editImage returns
\* or throws, and handleSubmit runs to its end.
ServiceSettlesWith(r, outcome) ==
    /\ r \in 1..Len(reqs)
    /\ reqs[r].pc = "calling"
    /\ LET result == editImage(outcome)
       IN  IF result.ok
           THEN SettleSucceeded(r, result.url)
           ELSE SettleFailed(r, ErrorValue(result.message))
    /\ UNCHANGED <<lastOutcome, lastReturn, codec>>

ServiceSettles(r) == \E outcome \in ServiceOutcomes : ServiceSettlesWith(r, outcome)

\* The component unmounts: React runs the cleanup of the last effect.
Unmount ==
    /\ mounted
    /\ mounted' = FALSE
    /\ revoked' = EffectCleanup(revoked, imagePreviewUrl)
    /\ UNCHANGED <<imageFile, imagePreviewUrl, prompt, generatedImageUrl,
                   isLoading, error, created, reqs, generatedBy, errorBy,
                   lastOutcome, lastReturn, codec>>

\* The controller's operations, each invocable whenever the component is
\* mounted, and the settlements of what they started.
Next ==
    \/ \E file \in FileIds \cup {NoFile} : handleImageChange(file)
    \/ \E text \in Prompts : setPrompt(text)
    \/ handleSubmit
    \/ \E r \in 1..MaxSubmits : FileReaderSettles(r)
    \/ \E r \in 1..MaxSubmits : ServiceSettles(r)
    \/ Unmount

Spec == Init /\ [][Next]_vars

\* ------------------------------------------------- the presentation layer

\* Line 180: <ImageUploader ... disabled={isLoading} />
UploaderDisabled == isLoading
\* Line 189: <textarea ... disabled={isLoading} />
TextareaDisabled == isLoading
\* The button's gating without its isLoading term.
GenerateDisabled_NoLoading == imageFile = NoFile \/ prompt = ""
\* Line 194: <button ... disabled={isLoading || !imageFile || !prompt}>
GenerateDisabled == isLoading \/ imageFile = NoFile \/ prompt = ""

\* The events the rendered elements deliver: a disabled element delivers none.
ChangeImage(file) == ~UploaderDisabled /\ handleImageChange(file)
TypePrompt(text) == ~TextareaDisabled /\ setPrompt(text)
ClickGenerate == ~GenerateDisabled /\ handleSubmit

NextUI ==
    \/ \E file \in FileIds \cup {NoFile} : ChangeImage(file)
    \/ \E text \in Prompts : TypePrompt(text)
    \/ ClickGenerate
    \/ \E r \in 1..MaxSubmits : FileReaderSettles(r)
    \/ \E r \in 1..MaxSubmits : ServiceSettles(r)
    \/ Unmount

SpecUI == Init /\ [][NextUI]_vars

\* --------------------------------------------- fairness of the settlements

\* A file read and a service call each settle in the end.
FairSpec ==
    /\ Spec
    /\ \A r \in 1..MaxSubmits :
         WF_vars(FileReaderSettles(r)) /\ WF_vars(ServiceSettles(r))

\* ------------------------------------------------ editImage on its own

\* editImage applied to each outcome of generateContent.
InitEdit ==
    /\ InitComponent
    /\ lastOutcome \in EditOutcomes
    /\ lastReturn = NotCalled
    /\ CodecIdle

CallEditImage ==
    /\ lastReturn = NotCalled
    /\ lastReturn' = editImage(lastOutcome)
    /\ UNCHANGED <<mounted, imageFile, imagePreviewUrl, prompt,
                   generatedImageUrl, isLoading, error, created, revoked, reqs,
                   generatedBy, errorBy, lastOutcome, codec>>

NextEdit == CallEditImage

SpecEdit == InitEdit /\ [][NextEdit]_vars

\* --------------------------------------- the codec functions on their own

\* fileToDataUrl and parseDataUrl are functions of the module: they are
\* applied here without a mounted component, to a file or to a string.
InitCodec ==
    /\ mounted = FALSE
    /\ imageFile = NoFile
    /\ imagePreviewUrl = NoUrl
    /\ prompt = DefaultPrompt
    /\ generatedImageUrl = Null
    /\ isLoading = FALSE
    /\ error = Null
    /\ created = 0
    /\ revoked = [u \in 1..MaxSelects |-> 0]
    /\ reqs = <<>>
    /\ generatedBy = 0
    /\ errorBy = 0
    /\ lastOutcome = NoOutcome
    /\ lastReturn = NotCalled
    /\ \/ /\ lastFile \in {Some(file) : file \in CodecFiles}
          /\ lastDataUrl = Null
       \/ /\ lastFile = Null
          /\ lastDataUrl \in {Some(dataUrl) : dataUrl \in DataUrlInputs}
    /\ lastParsed = NotParsed

\* fileToDataUrl(lastFile) resolves with what the reader delivers.
CallFileToDataUrl ==
    /\ lastFile # Null /\ lastDataUrl = Null
    /\ lastDataUrl' \in {Some(dataUrl) : dataUrl \in readAsDataURL(lastFile[1])}
    /\ UNCHANGED <<mounted, imageFile, imagePreviewUrl, prompt,
                   generatedImageUrl, isLoading, error, created, revoked, reqs,
                   generatedBy, errorBy, lastOutcome, lastReturn, lastFile,
                   lastParsed>>

\* parseDataUrl(lastDataUrl) returns or throws.
CallParseDataUrl ==
    /\ lastDataUrl # Null /\ lastParsed = NotParsed
    /\ lastParsed' = parseDataUrl(lastDataUrl[1])
    /\ UNCHANGED <<mounted, imageFile, imagePreviewUrl, prompt,
                   generatedImageUrl, isLoading, error, created, revoked, reqs,
                   generatedBy, errorBy, lastOutcome, lastReturn, lastFile,
                   lastDataUrl>>

NextCodec == CallFileToDataUrl \/ CallParseDataUrl

SpecCodec == InitCodec /\ [][NextCodec]_vars

\* The component, and beside it parseDataUrl applied to every string.
InitDecode == Init \/ (InitCodec /\ lastFile = Null)

NextDecode == Next \/ CallParseDataUrl

SpecDecode == InitDecode /\ [][NextDecode]_vars

\* The invocations of handleSubmit that have not run to their end.
InFlight == {r \in 1..Len(reqs) : reqs[r].pc \in {"reading", "calling"}}

\* C1, as claimed: at most one edit request is in flight, and while one is
\* pending handleSubmit itself rejects an invocation: no state in Loading lets
\* handleSubmit pass its validation and start a second file read and call.
C1_RejectedByHandleSubmit ==
    /\ Cardinality(InFlight) <= 1
    /\ isLoading /\ mounted => SubmitRejected

\* C1, amended: through the rendered elements at most one edit request is in
\* flight; while one is pending the component is Loading and the Generate
\* button is disabled, which is the only guard against a second submission.
C1_SingleFlightByGating ==
    /\ Cardinality(InFlight) <= 1
    /\ InFlight # {} /\ mounted => isLoading /\ GenerateDisabled

\* A submission is pending while an image and a prompt are present: only the
\* disabled button keeps handleSubmit from starting a second request.
C1_Witness ==
    /\ mounted /\ isLoading /\ Cardinality(InFlight) = 1
    /\ ~SubmitRejected
    /\ Len(reqs) < MaxSubmits

\* The component shows the outcome of a submission: Succeeded or Failed.
Succeeded == ~isLoading /\ generatedImageUrl # Null
Failed == ~isLoading /\ error # Null

\* C2: whenever the component is in Succeeded or Failed, the generated image
\* and the error it shows were written by the resolution of the most recently
\* submitted request, never by that of an older one.
C2_NoResultRacing ==
    /\ Succeeded => generatedBy = Len(reqs) /\ generatedBy > 0
    /\ Failed => errorBy = Len(reqs) /\ errorBy > 0

\* The second submission's outcome is shown, after the first one's was.
C2_Witness ==
    /\ Len(reqs) = 2
    /\ reqs[1].pc \in {"succeeded", "failed"}
    /\ Succeeded \/ Failed

\* C3: no object URL is revoked more than once, counting the revokeObjectURL
\* of handleImageChange and that of the effect cleanup.
C3_ReleasedAtMostOnce == \A u \in 1..MaxSelects : revoked[u] <= 1

\* C4: every object URL created has been revoked unless it is the preview of
\* the mounted component: a superseded URL is revoked, and after the unmount
\* none is left.
C4_NoLeak ==
    \A u \in 1..created : revoked[u] = 0 => mounted /\ u = imagePreviewUrl

\* Two images were selected and the component was unmounted.
C4_Witness == ~mounted /\ created = 2 /\ imagePreviewUrl = 2

\* C6: while isLoading, neither a generated image nor an error is shown.
C6_LoadingShowsNoResult ==
    isLoading => generatedImageUrl = Null /\ error = Null

\* A second submission is loading after the first one showed its outcome.
C6_Witness ==
    /\ isLoading /\ Len(reqs) = 2
    /\ reqs[1].pc \in {"succeeded", "failed"}

Pending(r) == r <= Len(reqs) /\ reqs[r].pc \in {"reading", "calling"}
Settled(r) == r <= Len(reqs) /\ reqs[r].pc \in {"succeeded", "failed"}

\* The resolution of invocation r writes the generated image and nothing else.
WritesGenerated(r) ==
    generatedImageUrl' # Null /\ generatedBy' = r /\ UNCHANGED error
\* The resolution of invocation r writes the error and nothing else.
WritesError(r) ==
    error' # Null /\ errorBy' = r /\ UNCHANGED generatedImageUrl

\* C5: every submission that passed the validation runs to its end, whatever
\* fails on the way; the component leaves Loading; and the step that ends a
\* submission clears isLoading and writes exactly one of the generated image
\* and the error.
C5_SubmitResolves ==
    /\ \A r \in 1..MaxSubmits : Pending(r) ~> Settled(r)
    /\ (mounted /\ isLoading) ~> (~mounted \/ ~isLoading)
    /\ [][\A r \in 1..MaxSubmits :
            Pending(r) /\ Settled(r)' /\ mounted =>
                /\ ~isLoading'
                /\ WritesGenerated(r) # WritesError(r)]_vars

\* A submission ended at its file read: no call was made, the error is shown.
C5_Witness ==
    /\ mounted /\ ~isLoading /\ Len(reqs) = 1
    /\ reqs[1].pc = "failed" /\ reqs[1].calls = <<>>
    /\ error = Some(UnknownErrorMessage)

\* C7: a handleSubmit invoked without an image or with an empty prompt sets
\* the validation message and changes nothing else: not the loading flag, the
\* generated image, the uploaded image, its preview or the prompt, and it
\* starts no file read and no service call.
C7_InvalidSubmitIsNoOp ==
    [][handleSubmit /\ (imageFile = NoFile \/ prompt = "") =>
            /\ error' = Some(ValidationMessage)
            /\ UNCHANGED <<isLoading, generatedImageUrl, imageFile,
                           imagePreviewUrl, prompt, reqs>>]_vars

\* The validation message is shown beside an image: the prompt was empty.
C7_Witness ==
    error = Some(ValidationMessage) /\ imageFile # NoFile /\ prompt = ""

\* What handleImageChange(f) makes of the image, the results and the prompt.
Replaced(f) ==
    /\ imageFile' = f
    /\ imagePreviewUrl' = created' /\ imagePreviewUrl' # imagePreviewUrl
    /\ generatedImageUrl' = Null /\ error' = Null
    /\ prompt' = prompt

\* C8, as claimed: in every state handleImageChange replaces the image and
\* its preview, clears the generated image and the error, keeps the prompt
\* and leaves the component Idle.
C8_SelectReachesIdle ==
    [][\A f \in FileIds : handleImageChange(f) => Replaced(f) /\ ~isLoading']_vars

\* C8, amended: in every state handleImageChange replaces the image and its
\* preview, clears the generated image and the error, and keeps the prompt
\* and the loading flag: the component is Idle afterwards unless a submission
\* is pending, and then it stays Loading.
C8_SelectReplaces ==
    [][\A f \in FileIds :
            handleImageChange(f) => Replaced(f) /\ isLoading' = isLoading]_vars

\* An image was selected while the submission of another one was loading.
C8_Witness ==
    /\ mounted /\ isLoading /\ Len(reqs) = 1
    /\ imageFile # reqs[1].file /\ imagePreviewUrl = 2

HasInline(parts) == \E i \in 1..Len(parts) : parts[i].inlineData # Null

\* The inline data of the first part, in response order, that has some.
FirstInline(parts) ==
    LET i == CHOOSE k \in 1..Len(parts) :
                 /\ parts[k].inlineData # Null
                 /\ \A j \in 1..(k - 1) : parts[j].inlineData = Null
    IN  parts[i].inlineData[1]

ExpectedUrl(inline) ==
    DataPrefix
    \o (IF inline.mimeType = Null THEN ImagePng ELSE inline.mimeType[1])
    \o Base64Marker \o inline.data[1]

\* C9: for a response with a part that carries inline data, editImage
\* returns the data URL of the first such part, with that part's MIME type or
\* image/png when it has none; no other part affects the result.
C9_FirstMatch ==
    /\ lastReturn # NotCalled
    /\ lastOutcome.kind = "response"
    /\ HasInline(PartsOf(lastOutcome))
    => lastReturn = Returned(ExpectedUrl(FirstInline(PartsOf(lastOutcome))))

\* editImage returned for a text part, an image without MIME type and a
\* later image.
C9_Witness ==
    /\ lastReturn.ok
    /\ lastOutcome.parts =
         Some(<<TextPart, InlinePart(Null, Some(<<"Q", "Q", "=", "=">>)),
                InlinePart(Some(ImagePng), Some(<<"T", "W", "F", "u">>))>>)

NoInline(outcome) == outcome.kind = "response" /\ ~HasInline(PartsOf(outcome))

\* C10: when generateContent resolves with a response of which no part
\* carries inline data, editImage returns nothing and throws the error of
\* the missing image, and the submission ends failed with that error shown.
C10_NoImageFails ==
    [][\A r \in 1..MaxSubmits : \A outcome \in ServiceOutcomes :
            ServiceSettlesWith(r, outcome) /\ NoInline(outcome) =>
                /\ reqs'[r].pc = "failed"
                /\ mounted =>
                     /\ error' = Some(EditFailedPrefix \o NoImageMessage)
                     /\ ~isLoading'
                     /\ UNCHANGED generatedImageUrl]_vars

\* A submission whose call was answered without an image left the component
\* Failed, showing the error of the missing image.
C10_Witness ==
    /\ mounted /\ ~isLoading /\ generatedImageUrl = Null
    /\ Len(reqs) = 1 /\ reqs[1].pc = "failed" /\ Len(reqs[1].calls) = 1
    /\ error = Some(EditFailedPrefix \o NoImageMessage)

\* C11: when generateContent rejects with an Error of message m, editImage
\* throws 'Failed to edit image: ' followed by m unchanged, and the
\* submission that made the call ends failed, showing exactly that text (it
\* ends with m), with isLoading cleared and no generated image written.
C11_ServiceErrorPreserved ==
    [][\A r \in 1..MaxSubmits : \A m \in ServiceMessages :
            ServiceSettlesWith(r, RejectError(m)) =>
                /\ editImage(RejectError(m)) = Thrown(EditFailedPrefix \o m)
                /\ reqs'[r].pc = "failed"
                /\ mounted =>
                     /\ error' = Some(EditFailedPrefix \o m)
                     /\ errorBy' = r
                     /\ ~isLoading'
                     /\ UNCHANGED generatedImageUrl]_vars

\* A submission whose call was rejected with 'quota exceeded' left the
\* component Failed, showing the prefixed message.
C11_Witness ==
    /\ mounted /\ ~isLoading /\ generatedImageUrl = Null
    /\ Len(reqs) = 1 /\ reqs[1].pc = "failed" /\ Len(reqs[1].calls) = 1
    /\ error = Some(EditFailedPrefix \o "quota exceeded")

\* A string of the form data:<type>;base64,<payload>, with a type and a
\* payload that are not empty.
MatchesForm(s) ==
    \E n \in 1..Len(s) : \E k \in 1..Len(s) :
        /\ Len(s) = Len(DataPrefix) + n + Len(Base64Marker) + k
        /\ s = DataPrefix \o SubSeq(s, Len(DataPrefix) + 1, Len(DataPrefix) + n)
               \o Base64Marker \o SubSeq(s, Len(s) - k + 1, Len(s))

\* C12: parseDataUrl throws 'Invalid data URL format' for every string that
\* is not of the form data:<type>;base64,<payload>; and when the file read of
\* a submission delivers such a string, the submission ends failed with that
\* message shown and isLoading cleared, it has made no call of
\* generateContent, and it makes none afterwards.
C12_MalformedIsRejected ==
    /\ [](lastDataUrl # Null /\ lastParsed # NotParsed
            /\ ~MatchesForm(lastDataUrl[1])
          => ~lastParsed.ok /\ lastParsed.message = InvalidDataUrlMessage)
    /\ [][\A r \in 1..MaxSubmits :
            \A dataUrl \in UNION {FileReaderResults(f) : f \in FileIds} :
                FileReaderDelivers(r, dataUrl) /\ ~MatchesForm(dataUrl) =>
                    /\ reqs'[r].pc = "failed"
                    /\ reqs'[r].calls = <<>>
                    /\ mounted =>
                         /\ error' = Some(InvalidDataUrlMessage)
                         /\ errorBy' = r
                         /\ ~isLoading'
                         /\ UNCHANGED generatedImageUrl]_vars
    /\ [][\A r \in 1..Len(reqs) :
            reqs[r].pc = "failed" => reqs'[r] = reqs[r]]_vars

\* The submission of the empty file ended at parseDataUrl: the message of
\* the format error is shown and no call was made.
C12_Witness ==
    /\ mounted /\ ~isLoading /\ generatedImageUrl = Null
    /\ Len(reqs) = 1 /\ reqs[1].pc = "failed" /\ reqs[1].calls = <<>>
    /\ Files[reqs[1].file].bytes = <<>>
    /\ error = Some(InvalidDataUrlMessage)

\* C13: for every file with at least one byte and a MIME type, fileToDataUrl
\* yields data:<type>;base64,<base64 of the bytes>, and parseDataUrl makes of
\* it exactly that type and that base64 text, four characters for every
\* three bytes begun.
C13_RoundTrip ==
    lastFile # Null /\ lastFile[1].bytes # <<>> /\ lastFile[1].type \in MimeTypes
    => /\ lastDataUrl # Null =>
            lastDataUrl[1] = DataPrefix \o lastFile[1].type \o Base64Marker
                             \o Base64(lastFile[1].bytes)
       /\ lastParsed # NotParsed =>
            /\ lastParsed.ok
            /\ lastParsed.mimeType = lastFile[1].type
            /\ lastParsed.base64 = Base64(lastFile[1].bytes)
            /\ Len(lastParsed.base64) = 4 * ((Len(lastFile[1].bytes) + 2) \div 3)

\* A file of four bytes whose type holds ';base64,' in a quoted parameter
\* went through fileToDataUrl and parseDataUrl.
C13_Witness ==
    /\ lastFile # Null /\ lastParsed.ok
    /\ lastFile[1].type = QuotedMarkerType
    /\ Len(lastFile[1].bytes) = 4

\* The step fails invocation r: its file read fails, parseDataUrl throws on
\* what the read delivered, or generateContent rejects or answers without an
\* image.
FileReadStepFails(r) == FileReaderFails(r)
DecodeStepFails(r) ==
    \E dataUrl \in FileReaderResults(reqs[r].file) :
        FileReaderDelivers(r, dataUrl) /\ ~MatchesForm(dataUrl)
ServiceStepFails(r) ==
    \E outcome \in ServiceOutcomes :
        /\ ServiceSettlesWith(r, outcome)
        /\ outcome.kind # "response" \/ NoInline(outcome)

\* C14: whichever step of a submission fails, the submission ends failed
\* and, the component being mounted, an error message that is not empty is
\* shown, written by that submission, with no generated image and isLoading
\* cleared; a failure whose value is no Error, and so has no message, is
\* shown as the fallback text of the block that caught it.
C14_NoFailureSwallowed ==
    /\ [][\A r \in 1..Len(reqs) :
            FileReadStepFails(r) \/ DecodeStepFails(r) \/ ServiceStepFails(r) =>
                /\ reqs'[r].pc = "failed"
                /\ mounted =>
                     /\ error' # Null /\ error' # Some("")
                     /\ errorBy' = r
                     /\ generatedImageUrl' = Null
                     /\ ~isLoading']_vars
    /\ [][\A r \in 1..Len(reqs) :
            Pending(r) /\ ~Pending(r)' =>
                \/ FileReadStepFails(r) \/ DecodeStepFails(r) \/ ServiceStepFails(r)
                \/ reqs'[r].pc = "succeeded"]_vars
    /\ [][\A r \in 1..Len(reqs) :
            FileReaderFails(r) /\ mounted =>
                error' = Some(UnknownErrorMessage)]_vars
    /\ [][\A r \in 1..Len(reqs) :
            ServiceSettlesWith(r, RejectOther) /\ mounted =>
                error' = Some(EditUnknownMessage)]_vars

\* generateContent rejected with a value that is no Error: the fallback text
\* of editImage is shown.
C14_Witness ==
    /\ mounted /\ ~isLoading /\ generatedImageUrl = Null
    /\ Len(reqs) = 1 /\ reqs[1].pc = "failed" /\ Len(reqs[1].calls) = 1
    /\ error = Some(EditUnknownMessage)

\* The request for file f and the text p: the base64 text of the file's
\* bytes, its type, and the text.
ExpectedRequest(f, p) ==
    EditRequest(Base64(Files[f].bytes),
                IF Files[f].type = <<>> THEN OctetStream ELSE Files[f].type, p)

\* C15: a handleSubmit that passes the validation sets isLoading and clears
\* the generated image and the error in the step that starts the file read,
\* with no call made yet; a submission calls generateContent only in the step
\* in which its file read has delivered a data URL that parseDataUrl
\* accepted; it makes at most one call; and the call carries the image and
\* the prompt that were current when handleSubmit was invoked, whatever was
\* selected or typed since.
C15_SubmitOrdering ==
    /\ [][Len(reqs') > Len(reqs) =>
            /\ ~SubmitRejected
            /\ Len(reqs') = Len(reqs) + 1
            /\ reqs'[Len(reqs')] = [pc |-> "reading", file |-> imageFile,
                                    prompt |-> prompt, calls |-> <<>>]
            /\ isLoading' /\ generatedImageUrl' = Null /\ error' = Null]_vars
    /\ [][\A r \in 1..Len(reqs) :
            reqs'[r].calls # reqs[r].calls =>
                /\ reqs[r].pc = "reading" /\ reqs[r].calls = <<>>
                /\ reqs'[r].pc = "calling"
                /\ Files[reqs[r].file].bytes # <<>>
                /\ reqs'[r].calls =
                     <<ExpectedRequest(reqs[r].file, reqs[r].prompt)>>]_vars
    /\ [][\A r \in 1..Len(reqs) :
            /\ reqs'[r].file = reqs[r].file
            /\ reqs'[r].prompt = reqs[r].prompt
            /\ reqs'[r].pc \in {"succeeded", "failed"} /\ reqs[r].pc # reqs'[r].pc
               => reqs[r].pc = "calling" \/ reqs'[r].pc = "failed"]_vars
    /\ [](\A r \in 1..Len(reqs) :
            /\ Len(reqs[r].calls) <= 1
            /\ reqs[r].pc = "reading" => reqs[r].calls = <<>>
            /\ reqs[r].pc \in {"calling", "succeeded"} => Len(reqs[r].calls) = 1)

\* A call was made for the first image and the first prompt after another
\* image was selected and the prompt was emptied.
C15_Witness ==
    /\ Len(reqs) = 1 /\ reqs[1].pc = "calling"
    /\ reqs[1].calls = <<ExpectedRequest(1, DefaultPrompt)>>
    /\ imageFile = 2 /\ prompt = ""

\* A generated image and an error are both shown.
BothShown == generatedImageUrl # Null /\ error # Null

\* C16, as claimed: after any sequence of handleImageChange, setPrompt,
\* handleSubmit, with or without an image and a prompt, and settlements, the
\* generated image and the error are never both present.
C16_NeverBoth == ~BothShown

\* C16, amended: a handleSubmit that passes the validation clears the
\* generated image and the error; a submission that ends writes one of the
\* two and not the other; so the two are never both written by one
\* submission, nor left over from a submission that had ended when the other
\* one started.  They become both present only by a handleSubmit without an
\* image or a prompt, which sets the validation message beside the generated
\* image, or when a submission ends while the validation message, or the
\* result of another submission that ran at the same time, is shown.
C16_BothOnlyByUndeliveredSubmit ==
    /\ [](BothShown =>
            \/ error = Some(ValidationMessage) /\ errorBy = 0
            \/ generatedBy > 0 /\ errorBy > 0 /\ generatedBy # errorBy)
    /\ [][Len(reqs') > Len(reqs) =>
            generatedImageUrl' = Null /\ error' = Null]_vars
    /\ [][\A r \in 1..Len(reqs) :
            Pending(r) /\ Settled(r)' /\ mounted =>
                WritesGenerated(r) # WritesError(r)]_vars
    /\ [][~BothShown /\ BothShown' =>
            \/ /\ SubmitRejected /\ GenerateDisabled
               /\ error' = Some(ValidationMessage)
               /\ UNCHANGED <<generatedImageUrl, reqs>>
            \/ \E r \in 1..Len(reqs) :
                 /\ Pending(r) /\ Settled(r)'
                 /\ \/ error = Some(ValidationMessage)
                    \/ \E q \in 1..Len(reqs) :
                         q # r /\ (generatedBy = q \/ errorBy = q)]_vars

\* After a success the prompt was emptied and handleSubmit invoked: the
\* validation message stands beside the generated image.
C16_Witness ==
    /\ mounted /\ ~isLoading /\ InFlight = {}
    /\ generatedImageUrl # Null /\ generatedBy = 1
    /\ error = Some(ValidationMessage) /\ prompt = ""

\* The generated image, or the error of a submission, that is shown was
\* made for another image than the one selected.
StaleGenerated ==
    generatedImageUrl # Null /\ generatedBy > 0
    /\ reqs[generatedBy].file # imageFile
StaleError ==
    error # Null /\ errorBy > 0 /\ reqs[errorBy].file # imageFile

\* C17, as claimed: the generated image and the error shown always come from
\* a submission of the image that is selected, also when handleImageChange
\* was invoked while that submission was pending.
C17_ShownDerivesFromSelected == ~StaleGenerated /\ ~StaleError

\* C17, amended: handleImageChange clears the generated image and the error,
\* so no result that is shown outlives the selection of another image; but
\* a submission that ends writes its result whatever image is selected by
\* then, so a result for another image than the selected one appears, and
\* only appears, when a submission ends that was pending while
\* handleImageChange replaced its image.
C17_StaleOnlyBySelectInFlight ==
    /\ [][\A f \in FileIds :
            handleImageChange(f) => ~StaleGenerated' /\ ~StaleError']_vars
    /\ [][(~StaleGenerated /\ StaleGenerated') \/ (~StaleError /\ StaleError') =>
            \E r \in 1..Len(reqs) :
                /\ Pending(r) /\ Settled(r)'
                /\ reqs[r].file # imageFile
                /\ UNCHANGED <<imageFile, imagePreviewUrl>>]_vars
    /\ [][\A r \in 1..Len(reqs) :
            Pending(r) /\ Settled(r)' /\ mounted /\ reqs[r].file # imageFile =>
                StaleGenerated' \/ StaleError']_vars

\* The image was replaced while its submission was pending, and the
\* generated image of the replaced one stands beside the new preview.
C17_Witness ==
    /\ mounted /\ ~isLoading /\ Len(reqs) = 1
    /\ reqs[1].pc = "succeeded" /\ generatedBy = 1
    /\ generatedImageUrl # Null
    /\ reqs[1].file = 1 /\ imageFile = 2 /\ imagePreviewUrl = 2

====
